---- MODULE Spec2Model ----
(***************************************************************************)
(* Order lifecycle of the senkisem.com backend: payment-session creation,  *)
(* invoice numbering, the Stripe webhook, download-token issuance and      *)
(* redemption.  The repository holds several revisions of the server; the  *)
(* variable rev names the revision that is deployed in a behaviour:        *)
(*   "server"   - src/server.js          (save + PDF + email at creation)  *)
(*   "part_003" - src/unnamed/part_003   (email and tokens in the webhook) *)
(*   "part_004" - src/unnamed/part_004   (tokens and email at creation)    *)
(*   "part_000" - src/unnamed/part_000   (order row written by webhook)    *)
(* and, for invoice allocation only,                                       *)
(*   "part_005" - src/unnamed/part_005   (invoice numbered by row count)   *)
(* The download-link service is src/unnamed/part_007 (lines 1-246).        *)
(* Every await of the handlers is a step boundary: an action is the        *)
(* effect of one awaited call plus the synchronous code up to the next     *)
(* await.  Time is counted in days.                                        *)
(***************************************************************************)
EXTENDS Integers, Sequences, FiniteSets, Bags, TLC

VARIABLES rev,        \* deployed revision
          orders,     \* Orders tab: sequence of rows
          tokens,     \* Download_Links tab: sequence of rows
          emails,     \* emails handed to the Notifier (a bag)
          sessions,   \* gateway sessions, indexed by session id
          urls,       \* session ids whose payment_url reached the client
          creates,    \* POST /create-payment-session requests in flight (a bag)
          hooks,      \* POST /webhook/stripe requests in flight (a bag)
          downloads,  \* GET /download/:token requests in flight (a bag)
          last,       \* the response sent last
          started,    \* number of requests received so far
          sent,       \* sent[t]: how many times the file was sent for token t
          overlap,    \* kinds of request of which two were ever in flight together
          verified,   \* session ids of the completed events that passed constructEvent
          now,        \* clock, in days
          faults,     \* external-call failures injected so far
          hits        \* downloadLimiter: requests counted per address in the window

vars == <<rev, orders, tokens, emails, sessions, urls, creates, hooks,
          downloads, last, started, sent, overlap, verified, now, faults, hits>>

----------------------------------------------------------------------------
\* Bounds of the model
\* requests received plus external-call failures injected, per behaviour
MaxInputs == 3
\* the timestamp suffixes the fallback invoice number is drawn from
MaxStamp == 1
\* rows in the Orders tab when the server starts, where a behaviour starts
\* from a ledger that is not empty
MaxRows == 2

----------------------------------------------------------------------------
\* Program constants
LINK_EXPIRY_DAYS == 7

\* CONFIG.SHIPPING.HOME_DELIVERY_COST, in dollars
HOME_DELIVERY_COST == 15

Revisions == {"server", "part_003", "part_004", "part_000"}

InvoicePrefix == "E-SEN-2026-"

ebookIds == {2, 4, 300}

\* product.json: the ids the catalog knows
Catalog == {2, 4, 7, 300}

\* product.json: Math.round(product.price * 100), the unit amount in cents
CatalogPrice(id) ==
  CASE id = 2 -> 1000
    [] id = 4 -> 1200
    [] id = 7 -> 2500
    [] OTHER -> 1800

AwaitingPayment == "Fizetesre var"

StatusPaid(r) ==
  CASE r = "part_003" -> "Fizetve OK"
    [] r = "part_000" -> "Fizetes Teljesitve"
    [] OTHER -> "Fizetve"

PaidStatuses == {StatusPaid(r) : r \in Revisions}

\* item.price is a JavaScript number or a string.  Amounts are numbers with
\* at most two decimals and are counted in cents.
NumPrice(c) == [type |-> "number", cents |-> c]

StrPrice(chars) == [type |-> "string", chars |-> chars]

\* A cart line; quantity 0 also stands for a line without a quantity
Item(id, price, quantity) == [id |-> id, price |-> price, quantity |-> quantity]

\* Inputs
Carts == { <<Item(2, NumPrice(1000), 1)>>, <<Item(7, NumPrice(2500), 2)>>,
           <<Item(99, NumPrice(500), 1)>> }

Customers == { [email |-> "anna@example.com", shippingMethod |-> "digital"] }

IPs == {"10.0.0.1"}

----------------------------------------------------------------------------
\* Strings of digits, as sequences over 0..9

RECURSIVE Digits(_)
Digits(n) == IF n < 10 THEN <<n>> ELSE Digits(n \div 10) \o <<n % 10>>

RECURSIVE padStart3(_)
padStart3(s) == IF Len(s) >= 3 THEN s ELSE padStart3(<<0>> \o s)

RECURSIVE parseInt(_)
parseInt(s) == IF Len(s) = 0 THEN 0
               ELSE 10 * parseInt(SubSeq(s, 1, Len(s) - 1)) + s[Len(s)]

NoInvoice == [prefix |-> "", suffix |-> <<>>]

FormatInvoice(n) == [prefix |-> InvoicePrefix, suffix |-> padStart3(Digits(n))]

SetMax(S) == IF S = {} THEN 0 ELSE CHOOSE m \in S : \A x \in S : x <= m

\* The scan of getNextInvoiceNumber / generateNextInvoiceNumber over rows
NextInvoiceNumber(rows) ==
  LET nums == { parseInt(rows[i].inv.suffix) :
                  i \in { j \in 1..Len(rows) : rows[j].inv.prefix = InvoicePrefix } }
      maxNumber == SetMax(nums)
  IN FormatInvoice(maxNumber + 1)

\* part_005, generateInvoiceNumber: the rows whose 'Datum' contains 2026 are
\* counted; every row of the 2026 worksheet is dated 2026
generateInvoiceNumber(rows) == FormatInvoice(Len(rows) + 1)

\* What the catch branch of the allocator returns
FallbackInvoices(r) ==
  IF r = "server" THEN { FormatInvoice(1) }
  ELSE { [prefix |-> InvoicePrefix, suffix |-> padStart3(Digits(d))] : d \in 0..MaxStamp }

----------------------------------------------------------------------------
isEbook(cart) == \A i \in 1..Len(cart) : cart[i].id \in ebookIds

hasDigitalProducts(cart) == \E i \in 1..Len(cart) : cart[i].id \in ebookIds

productsFound(cart) == \A i \in 1..Len(cart) : cart[i].id \in Catalog

CanFail == started + faults < MaxInputs

----------------------------------------------------------------------------
\* Totals

DigitChars == {"0", "1", "2", "3", "4", "5", "6", "7", "8", "9"}

DigitOf(ch) == CHOOSE d \in 0..9 : <<"0", "1", "2", "3", "4", "5", "6", "7", "8", "9">>[d + 1] = ch

\* item.price.replace(/[^0-9.]/g, '')
IsPriceChar(ch) == ch \in DigitChars \cup {"."}

RECURSIVE LeadingDigits(_)
LeadingDigits(s) ==
  IF s = <<>> \/ Head(s) \notin DigitChars THEN <<>>
  ELSE <<DigitOf(Head(s))>> \o LeadingDigits(Tail(s))

\* parseFloat of a string of digits and dots: the integer part, then at
\* most one fraction; the value in cents
parseFloat(s) ==
  LET int  == LeadingDigits(s)
      rest == SubSeq(s, Len(int) + 1, Len(s))
      frac == IF rest # <<>> /\ Head(rest) = "." THEN LeadingDigits(Tail(rest)) ELSE <<>>
      f2   == SubSeq(frac \o <<0, 0>>, 1, 2)
  IN 100 * parseInt(int) + 10 * f2[1] + f2[2]

\* typeof item.price === 'string' ? parseFloat(...) : item.price
itemPrice(item) ==
  IF item.price.type = "string"
  THEN parseFloat(SelectSeq(item.price.chars, IsPriceChar))
  ELSE item.price.cents

\* item.quantity || 1
itemQuantity(item) == IF item.quantity = 0 THEN 1 ELSE item.quantity

\* A total that adds each line's price once, whatever its quantity
RECURSIVE productTotal_IgnoreQuantity(_)
productTotal_IgnoreQuantity(cart) ==
  IF cart = <<>> THEN 0
  ELSE productTotal_IgnoreQuantity(SubSeq(cart, 1, Len(cart) - 1))
       + itemPrice(cart[Len(cart)])

\* cart.reduce((sum, item) => sum + price * quantity, 0)
RECURSIVE productTotal(_)
productTotal(cart) ==
  IF cart = <<>> THEN 0
  ELSE productTotal(SubSeq(cart, 1, Len(cart) - 1))
       + itemPrice(cart[Len(cart)]) * itemQuantity(cart[Len(cart)])

\* A shipping rule that looks at the method only
calculateShippingCost_MethodOnly(cart, shippingMethod) ==
  IF shippingMethod = "digital" THEN 0
  ELSE IF shippingMethod = "home" THEN HOME_DELIVERY_COST * 100
  ELSE 0

calculateShippingCost(cart, shippingMethod) ==
  IF isEbook(cart) \/ shippingMethod = "digital" THEN 0
  ELSE IF shippingMethod = "home" THEN HOME_DELIVERY_COST * 100
  ELSE 0

totalAmount(cart, shippingMethod) ==
  productTotal(cart) + calculateShippingCost(cart, shippingMethod)

\* `$${x.toFixed(2)}`: the digits before and after the decimal point
toFixed2(c) == [int |-> Digits(c \div 100), frac |-> <<(c % 100) \div 10, c % 10>>]

\* part_000: the line items the gateway lists, amount_total in cents
RECURSIVE lineItemsTotal(_)
lineItemsTotal(cart) ==
  IF cart = <<>> THEN 0
  ELSE lineItemsTotal(SubSeq(cart, 1, Len(cart) - 1))
       + CatalogPrice(cart[Len(cart)].id) * itemQuantity(cart[Len(cart)])

lineItemsShipping(cart) == IF isEbook(cart) THEN 0 ELSE HOME_DELIVERY_COST * 100

\* 'Email': customerData.email || '-'
Row(cart, cust, sid, inv, status, products, shipping) ==
  [sid |-> sid, inv |-> inv, status |-> status,
   email |-> IF cust.email = "" THEN "-" ELSE cust.email, cart |-> cart,
   productTotal |-> toFixed2(products), shipping |-> toFixed2(shipping),
   total |-> toFixed2(products + shipping)]

\* The row saveOrderToSheets appends
OrderRow(cart, cust, sid, inv, status) ==
  Row(cart, cust, sid, inv, status, productTotal(cart),
      calculateShippingCost(cart, cust.shippingMethod))

\* part_000: the row saveOrder appends
PaidRow(cart, cust, sid) ==
  Row(cart, cust, sid, NoInvoice, StatusPaid("part_000"), lineItemsTotal(cart),
      lineItemsShipping(cart))

\* Bags of requests in flight
Put(B, r) == B (+) SetToBag({r})

Take(B, r) == B (-) SetToBag({r})

Move(B, r, q) == Put(Take(B, r), q)

\* A request of kind k arrives while the bag B of its kind is in flight
Arrive(k, B) ==
  /\ started + faults < MaxInputs
  /\ started' = started + 1
  /\ overlap' = IF B = EmptyBag THEN overlap ELSE overlap \cup {k}

NoResponse ==
  [kind |-> "none", status |-> 0, reason |-> "", sid |-> 0, token |-> 0,
   sigOK |-> FALSE, type |-> "", reads |-> 0, writes |-> 0, mails |-> 0,
   foundAtStart |-> FALSE, usedAtStart |-> FALSE, expiredAtStart |-> FALSE,
   file |-> ""]

----------------------------------------------------------------------------
Init ==
  /\ rev \in Revisions
  /\ orders = <<>>
  /\ tokens = <<>>
  /\ emails = EmptyBag
  /\ sessions = <<>>
  /\ urls = {}
  /\ creates = EmptyBag
  /\ hooks = EmptyBag
  /\ downloads = EmptyBag
  /\ last = NoResponse
  /\ started = 0
  /\ sent = EmptyBag
  /\ overlap = {}
  /\ verified = {}
  /\ now = 0
  /\ faults = 0
  /\ hits = [ip \in IPs |-> 0]

----------------------------------------------------------------------------
\* Download-link service: issuance

NoDate == -1

\* A row whose expiry is a day short of the policy
TokenRow_ShortExpiry(tok, email, productId, invoiceNumber) ==
  [token |-> tok, email |-> email, productIds |-> Digits(productId),
   created |-> now, used |-> "FALSE", expiry |-> now + LINK_EXPIRY_DAYS - 1,
   ip |-> "", downloadDate |-> NoDate, inv |-> invoiceNumber,
   bound |-> [productId |-> productId, email |-> email]]

\* The row generateDownloadToken appends; bound records the arguments of the
\* call, the row's other fields are what the sheet stores
TokenRow(tok, email, productId, invoiceNumber) ==
  [token |-> tok, email |-> email, productIds |-> Digits(productId),
   created |-> now, used |-> "FALSE", expiry |-> now + LINK_EXPIRY_DAYS,
   ip |-> "", downloadDate |-> NoDate, inv |-> invoiceNumber,
   bound |-> [productId |-> productId, email |-> email]]

hasItem(cart, id) == \E i \in 1..Len(cart) : cart[i].id = id

\* An issuer of one token per order instead of one per digital product
LinkProducts_PerOrder(cart) ==
  IF hasItem(cart, 2) \/ hasItem(cart, 300) THEN <<2>>
  ELSE IF hasItem(cart, 4) THEN <<4>> ELSE <<>>

\* The product ids generateDownloadLinks issues a token for, in order
LinkProducts(cart) ==
  (IF hasItem(cart, 2) \/ hasItem(cart, 300) THEN <<2>> ELSE <<>>) \o
  (IF hasItem(cart, 4) \/ hasItem(cart, 300) THEN <<4>> ELSE <<>>)

\* The rows generateDownloadLinks appends; uuidv4 is modelled by a token
\* never issued before
generateDownloadLinks(cart, email, invoiceNumber) ==
  LET pids == LinkProducts(cart)
  IN [k \in 1..Len(pids) |->
        TokenRow(Len(tokens) + k, email, pids[k], invoiceNumber)]

LinksOf(rows) == { rows[k].token : k \in 1..Len(rows) }

\* emailTemplates.js: the template chosen from the cart, physical first
determineEmailTemplate(cart) ==
  LET hasPhysical == \E i \in 1..Len(cart) : cart[i].id \notin {2, 4, 300}
  IN IF hasPhysical THEN "physicalProduct"
     ELSE IF hasItem(cart, 300) \/ (hasItem(cart, 2) /\ hasItem(cart, 4))
     THEN "digitalBundle"
     ELSE IF hasItem(cart, 2) THEN "digitalProduct1"
     ELSE IF hasItem(cart, 4) THEN "digitalProduct2"
     ELSE "physicalProduct"

\* emailTemplates.js, generateEmail: the tokens whose URL is an href of the
\* html. templateDigitalBundle reads downloadLinks.product2 and .product4;
\* the two single-ebook templates put the whole links object into the href
\* (it renders as "[object Object]"); templatePhysicalProduct takes no links.
generateEmail(templateType, downloadLinks) ==
  IF templateType = "digitalBundle" THEN downloadLinks ELSE {}

\* The email with the PDF invoice; total is the grand total the invoice shows
Email(sid, orderData, invoiceNumber, links) ==
  [sid |-> sid, to |-> orderData.cust.email, inv |-> invoiceNumber,
   links |-> generateEmail(determineEmailTemplate(orderData.cart), links),
   total |-> toFixed2(totalAmount(orderData.cart, orderData.cust.shippingMethod))]

----------------------------------------------------------------------------
\* POST /create-payment-session

NewCreate(pc, cart, cust, sid) ==
  [pc |-> pc, cart |-> cart, cust |-> cust, sid |-> sid, inv |-> NoInvoice,
   links |-> {}]

CreateResponse(sid, status) ==
  [NoResponse EXCEPT !.kind = "create", !.sid = sid, !.status = status]

\* Request arrival, line items and stripe.checkout.sessions.create
CreateSession(cart, cust) ==
  /\ Arrive("create", creates)
  /\ IF ~productsFound(cart)
     THEN /\ last' = [CreateResponse(0, 500) EXCEPT !.reason = "product-not-found"]
          /\ UNCHANGED <<sessions, urls, creates>>
     ELSE LET sid == Len(sessions) + 1
          IN /\ sessions' = Append(sessions, [cart |-> cart, cust |-> cust])
             /\ IF rev = "part_000"
                THEN /\ last' = CreateResponse(sid, 200)
                     /\ urls' = urls \cup {sid}
                     /\ UNCHANGED creates
                ELSE /\ creates' = Put(creates, NewCreate(IF rev = "part_005" THEN "save"
                                                          ELSE "scan", cart, cust, sid))
                     /\ UNCHANGED <<urls, last>>
  /\ UNCHANGED <<hits, verified, rev, orders, tokens, emails, hooks, downloads, sent, now, faults>>

\* stripe.checkout.sessions.create rejects or is unreachable
CreateSessionFail(cart, cust) ==
  /\ Arrive("create", creates)
  /\ started + faults + 1 < MaxInputs
  /\ productsFound(cart)
  /\ last' = CreateResponse(0, 500)
  /\ faults' = faults + 1
  /\ UNCHANGED <<hits, verified, rev, orders, tokens, emails, sessions, urls, creates, hooks,
                 downloads, sent, now>>

\* The allocator's scan of the Orders tab
CreateScan(c) ==
  /\ c.pc = "scan"
  /\ creates' = Move(creates, c, [c EXCEPT !.inv = NextInvoiceNumber(orders),
                                           !.pc = "append"])
  /\ UNCHANGED <<hits, verified, rev, orders, tokens, emails, sessions, urls, hooks, downloads,
                 last, started, sent, overlap, now, faults>>

\* An allocator without a catch: the failed scan ends the request with 500
CreateScanFail_Raise(c) ==
  /\ c.pc = "scan"
  /\ CanFail
  /\ creates' = Take(creates, c)
  /\ last' = CreateResponse(c.sid, 500)
  /\ faults' = faults + 1
  /\ UNCHANGED <<hits, verified, rev, orders, tokens, emails, sessions, urls, hooks, downloads,
                 started, sent, overlap, now>>

\* The scan throws: the allocator's catch returns the fallback
CreateScanFail(c) ==
  /\ c.pc = "scan"
  /\ CanFail
  /\ \E f \in FallbackInvoices(rev) :
       creates' = Move(creates, c, [c EXCEPT !.inv = f, !.pc = "append"])
  /\ faults' = faults + 1
  /\ UNCHANGED <<hits, verified, rev, orders, tokens, emails, sessions, urls, hooks, downloads,
                 last, started, sent, overlap, now>>

\* sheet.addRow of the order row
CreateAppend(c) ==
  /\ c.pc = "append"
  /\ orders' = Append(orders, OrderRow(c.cart, c.cust, c.sid, c.inv, AwaitingPayment))
  /\ IF rev = "part_003"
     THEN /\ creates' = Take(creates, c)
          /\ last' = CreateResponse(c.sid, 200)
          /\ urls' = urls \cup {c.sid}
     ELSE /\ creates' = Move(creates, c,
                          [c EXCEPT !.pc = IF rev = "part_004" THEN "links" ELSE "notify"])
          /\ UNCHANGED <<urls, last>>
  /\ UNCHANGED <<hits, verified, rev, tokens, emails, sessions, hooks, downloads, started, sent,
                 overlap, now, faults>>

\* sheet.addRow throws: saveOrderToSheets rethrows, the route answers 500
CreateAppendFail(c) ==
  /\ c.pc = "append"
  /\ CanFail
  /\ creates' = Take(creates, c)
  /\ last' = CreateResponse(c.sid, 500)
  /\ faults' = faults + 1
  /\ UNCHANGED <<hits, verified, rev, orders, tokens, emails, sessions, urls, hooks, downloads,
                 started, sent, overlap, now>>

\* part_004: download links are generated right after the row is saved
CreateLinks(c) ==
  LET rows == generateDownloadLinks(c.cart, c.cust.email, c.inv)
  IN /\ c.pc = "links"
     /\ IF hasDigitalProducts(c.cart)
        THEN /\ tokens' = tokens \o rows
             /\ creates' = Move(creates, c, [c EXCEPT !.pc = "notify",
                                                      !.links = LinksOf(rows)])
        ELSE /\ tokens' = tokens
             /\ creates' = Move(creates, c, [c EXCEPT !.pc = "notify"])
     /\ UNCHANGED <<hits, verified, rev, orders, emails, sessions, urls, hooks, downloads, last,
                    started, sent, overlap, now, faults>>

\* part_004: generateDownloadLinks throws; saveOrderToSheets rethrows, 500
CreateLinksFail(c) ==
  /\ c.pc = "links"
  /\ hasDigitalProducts(c.cart)
  /\ CanFail
  /\ creates' = Take(creates, c)
  /\ last' = CreateResponse(c.sid, 500)
  /\ faults' = faults + 1
  /\ UNCHANGED <<hits, verified, rev, orders, tokens, emails, sessions, urls, hooks, downloads,
                 started, sent, overlap, now>>

\* server.js: PDF + confirmation email; part_004: email with PDF and links
CreateNotify(c) ==
  /\ c.pc = "notify"
  /\ emails' = Put(emails, Email(c.sid, [cart |-> c.cart, cust |-> c.cust], c.inv, c.links))
  /\ creates' = Take(creates, c)
  /\ last' = CreateResponse(c.sid, 200)
  /\ urls' = urls \cup {c.sid}
  /\ UNCHANGED <<hits, verified, rev, orders, tokens, sessions, hooks, downloads, started, sent,
                 overlap, now, faults>>

\* The email send fails: logged and swallowed, the route still answers 200
CreateNotifyFail(c) ==
  /\ c.pc = "notify"
  /\ CanFail
  /\ creates' = Take(creates, c)
  /\ last' = CreateResponse(c.sid, 200)
  /\ urls' = urls \cup {c.sid}
  /\ faults' = faults + 1
  /\ UNCHANGED <<hits, verified, rev, orders, tokens, emails, sessions, hooks, downloads, started,
                 sent, overlap, now>>

\* server.js: generateInvoicePDF rejects; saveOrderToSheets rethrows, 500
CreatePdfFail(c) ==
  /\ c.pc = "notify"
  /\ rev = "server"
  /\ CanFail
  /\ creates' = Take(creates, c)
  /\ last' = CreateResponse(c.sid, 500)
  /\ faults' = faults + 1
  /\ UNCHANGED <<hits, verified, rev, orders, tokens, emails, sessions, urls, hooks, downloads,
                 started, sent, overlap, now>>

\* part_005, saveOrderToSheets: the row has no invoice number column
CreateSave(c) ==
  /\ c.pc = "save"
  /\ orders' = Append(orders, OrderRow(c.cart, c.cust, c.sid, NoInvoice, AwaitingPayment))
  /\ creates' = Move(creates, c, [c EXCEPT !.pc = "invoice"])
  /\ UNCHANGED <<hits, verified, rev, tokens, emails, sessions, urls, hooks, downloads, last,
                 started, sent, overlap, now, faults>>

\* part_005, generateAndSaveInvoice: the invoice number is allocated
CreateInvoice(c) ==
  /\ c.pc = "invoice"
  /\ creates' = Move(creates, c, [c EXCEPT !.inv = generateInvoiceNumber(orders),
                                           !.pc = "upload"])
  /\ UNCHANGED <<hits, verified, rev, orders, tokens, emails, sessions, urls, hooks, downloads,
                 last, started, sent, overlap, now, faults>>

\* part_005: the PDF is created and uploaded, the route answers
CreateUpload(c) ==
  /\ c.pc = "upload"
  /\ creates' = Take(creates, c)
  /\ last' = CreateResponse(c.sid, 200)
  /\ urls' = urls \cup {c.sid}
  /\ UNCHANGED <<hits, verified, rev, orders, tokens, emails, sessions, hooks, downloads,
                 started, sent, overlap, now, faults>>

----------------------------------------------------------------------------
\* POST /webhook/stripe

Completed == "checkout.session.completed"

EventTypes == {Completed, "payment_intent.succeeded"}

\* A session of the gateway account that this server did not create
ForeignSession == 0

\* Events the gateway signs: a completed event only for a session whose
\* payment_url reached the customer, or for a session of the account that
\* is not in the ledger.  Anyone can post an unsigned one.
Events ==
  { [sid |-> s, type |-> t, sigOK |-> TRUE] :
      s \in 1..Len(sessions), t \in EventTypes \ {Completed} }
  \cup { [sid |-> s, type |-> Completed, sigOK |-> TRUE] : s \in urls \cup {ForeignSession} }
  \cup { [sid |-> s, type |-> Completed, sigOK |-> FALSE] : s \in 1..Len(sessions) }

NoRow == OrderRow(<<>>, [email |-> "", shippingMethod |-> ""], 0, NoInvoice, "")

NewHook(pc, ev) ==
  [pc |-> pc, ev |-> ev, idx |-> 0, row |-> NoRow, links |-> {},
   reads |-> 0, writes |-> 0, mails |-> 0]

HookResponse(h, status) ==
  [NoResponse EXCEPT !.kind = "webhook", !.sid = h.ev.sid, !.status = status,
                     !.sigOK = h.ev.sigOK, !.type = h.ev.type,
                     !.reads = h.reads, !.writes = h.writes, !.mails = h.mails]

\* A receiver that skips constructEvent's verdict and processes the event
HookReceive_Unverified(ev) ==
  /\ Arrive("webhook", hooks)
  /\ IF ev.type # Completed
     THEN /\ last' = HookResponse(NewHook("done", ev), 200)
          /\ UNCHANGED hooks
     ELSE /\ hooks' = Put(hooks, NewHook(IF rev = "part_000" THEN "append" ELSE "read", ev))
          /\ UNCHANGED last
  /\ verified' = IF ev.sigOK /\ ev.type = Completed
                 THEN verified \cup {ev.sid} ELSE verified
  /\ UNCHANGED <<hits, rev, orders, tokens, emails, sessions, urls, creates, downloads,
                 sent, now, faults>>

\* A receiver without the event-type test: every verified event is processed
HookReceive_AnyType(ev) ==
  /\ Arrive("webhook", hooks)
  /\ IF ~ev.sigOK
     THEN /\ last' = HookResponse(NewHook("done", ev), 400)
          /\ UNCHANGED hooks
     ELSE /\ hooks' = Put(hooks, NewHook(IF rev = "part_000" THEN "append" ELSE "read", ev))
          /\ UNCHANGED last
  /\ verified' = IF ev.sigOK /\ ev.type = Completed
                 THEN verified \cup {ev.sid} ELSE verified
  /\ UNCHANGED <<hits, rev, orders, tokens, emails, sessions, urls, creates, downloads,
                 sent, now, faults>>

\* Arrival: constructEvent and the event-type test
HookReceive(ev) ==
  /\ Arrive("webhook", hooks)
  /\ IF ~ev.sigOK
     THEN /\ last' = HookResponse(NewHook("done", ev), 400)
          /\ UNCHANGED hooks
     ELSE IF ev.type # Completed
     THEN /\ last' = HookResponse(NewHook("done", ev), 200)
          /\ UNCHANGED hooks
     ELSE /\ hooks' = Put(hooks, NewHook(IF rev = "part_000" THEN "append" ELSE "read", ev))
          /\ UNCHANGED last
  /\ verified' = IF ev.sigOK /\ ev.type = Completed
                 THEN verified \cup {ev.sid} ELSE verified
  /\ UNCHANGED <<hits, rev, orders, tokens, emails, sessions, urls, creates, downloads,
                 sent, now, faults>>

\* rows.find(row => row.get('Rendeles ID') === session.id)
FindOrder(rows, sid) ==
  LET hit == { j \in 1..Len(rows) : rows[j].sid = sid }
  IN IF hit = {} THEN 0 ELSE CHOOSE j \in hit : \A k \in hit : j <= k

\* getSheet + getRows + find
HookRead(h) ==
  LET idx == FindOrder(orders, h.ev.sid)
      read == [h EXCEPT !.reads = h.reads + 1]
  IN /\ h.pc = "read"
     /\ IF idx = 0
        THEN /\ hooks' = Take(hooks, h)
             /\ last' = HookResponse(read, 200)
        ELSE /\ hooks' = Move(hooks, h, [read EXCEPT !.pc = "save", !.idx = idx,
                                                     !.row = orders[idx]])
             /\ UNCHANGED last
     /\ UNCHANGED <<hits, verified, rev, orders, tokens, emails, sessions, urls, creates,
                    downloads, started, sent, overlap, now, faults>>

\* A catch block that undoes the status it saved and reports the failure
HookFail_Revert(h) ==
  /\ CanFail
  /\ hooks' = Take(hooks, h)
  /\ last' = HookResponse(h, 500)
  /\ faults' = faults + 1
  /\ orders' = IF h.writes >= 1 /\ h.idx # 0
                THEN [orders EXCEPT ![h.idx].status = AwaitingPayment]
                ELSE orders
  /\ UNCHANGED <<hits, verified, rev, tokens, emails, sessions, urls, creates, downloads,
                 started, sent, overlap, now>>

\* A step of the handler's try block throws: caught, logged, answered 200
HookFail(h) ==
  /\ CanFail
  /\ hooks' = Take(hooks, h)
  /\ last' = HookResponse(h, 200)
  /\ faults' = faults + 1
  /\ orders' = orders
  /\ UNCHANGED <<hits, verified, rev, tokens, emails, sessions, urls, creates, downloads,
                 started, sent, overlap, now>>

\* A handler that flips the status it read instead of setting it to Paid
HookSave_Toggle(h) ==
  LET row == [h.row EXCEPT !.status = IF h.row.status \in {StatusPaid(r) : r \in Revisions}
                                      THEN AwaitingPayment ELSE StatusPaid(rev)]
      saved == [h EXCEPT !.row = row, !.writes = h.writes + 1]
  IN /\ h.pc = "save"
     /\ orders' = [orders EXCEPT ![h.idx] = row]
     /\ IF rev = "part_003"
        THEN /\ hooks' = Move(hooks, h, [saved EXCEPT !.pc = "links"])
             /\ UNCHANGED last
        ELSE /\ hooks' = Take(hooks, h)
             /\ last' = HookResponse(saved, 200)
     /\ UNCHANGED <<hits, verified, rev, tokens, emails, sessions, urls, creates, downloads,
                    started, sent, overlap, now, faults>>

\* A handler that also allocates a new invoice number when it saves the status
HookSave_Renumber(h) ==
  LET row == [h.row EXCEPT !.status = StatusPaid(rev), !.inv = NextInvoiceNumber(orders)]
      saved == [h EXCEPT !.row = row, !.writes = h.writes + 1]
  IN /\ h.pc = "save"
     /\ orders' = [orders EXCEPT ![h.idx] = row]
     /\ IF rev = "part_003"
        THEN /\ hooks' = Move(hooks, h, [saved EXCEPT !.pc = "links"])
             /\ UNCHANGED last
        ELSE /\ hooks' = Take(hooks, h)
             /\ last' = HookResponse(saved, 200)
     /\ UNCHANGED <<hits, verified, rev, tokens, emails, sessions, urls, creates, downloads,
                    started, sent, overlap, now, faults>>

\* orderRow.set('Statusz', paid); orderRow.save(): the row object read
\* earlier is written back whole at its row index
HookSave(h) ==
  LET row == [h.row EXCEPT !.status = StatusPaid(rev)]
      saved == [h EXCEPT !.row = row, !.writes = h.writes + 1]
  IN /\ h.pc = "save"
     /\ orders' = [orders EXCEPT ![h.idx] = row]
     /\ IF rev = "part_003"
        THEN /\ hooks' = Move(hooks, h, [saved EXCEPT !.pc = "links"])
             /\ UNCHANGED last
        ELSE /\ hooks' = Take(hooks, h)
             /\ last' = HookResponse(saved, 200)
     /\ UNCHANGED <<hits, verified, rev, tokens, emails, sessions, urls, creates, downloads,
                    started, sent, overlap, now, faults>>

\* part_003: order data from the session metadata, then download links
HookLinks(h) ==
  LET orderData == sessions[h.ev.sid]
      rows == generateDownloadLinks(orderData.cart, orderData.cust.email, h.row.inv)
  IN /\ h.pc = "links"
     /\ IF hasDigitalProducts(orderData.cart)
        THEN /\ tokens' = tokens \o rows
             /\ hooks' = Move(hooks, h, [h EXCEPT !.pc = "email",
                                                  !.links = LinksOf(rows),
                                                  !.writes = h.writes + Len(rows)])
        ELSE /\ tokens' = tokens
             /\ hooks' = Move(hooks, h, [h EXCEPT !.pc = "email"])
     /\ UNCHANGED <<hits, verified, rev, orders, emails, sessions, urls, creates, downloads, last,
                    started, sent, overlap, now, faults>>

\* part_003: sendOrderEmail (PDF invoice, template, resend.emails.send)
HookEmail(h) ==
  LET orderData == sessions[h.ev.sid]
  IN /\ h.pc = "email"
     /\ emails' = Put(emails, Email(h.ev.sid, orderData, h.row.inv, h.links))
     /\ hooks' = Take(hooks, h)
     /\ last' = HookResponse([h EXCEPT !.mails = h.mails + 1], 200)
     /\ UNCHANGED <<hits, verified, rev, orders, tokens, sessions, urls, creates, downloads,
                    started, sent, overlap, now, faults>>

\* part_000: listLineItems, then saveOrder appends the row
HookAppend(h) ==
  LET s == IF h.ev.sid = ForeignSession
           THEN [cart |-> <<>>, cust |-> [email |-> "", shippingMethod |-> ""]]
           ELSE sessions[h.ev.sid]
  IN /\ h.pc = "append"
     /\ orders' = Append(orders, PaidRow(s.cart, s.cust, h.ev.sid))
     /\ hooks' = Take(hooks, h)
     /\ last' = HookResponse([h EXCEPT !.writes = h.writes + 1], 200)
     /\ UNCHANGED <<hits, verified, rev, tokens, emails, sessions, urls, creates, downloads,
                    started, sent, overlap, now, faults>>

----------------------------------------------------------------------------
\* GET /download/:token

FindToken(rows, tok) ==
  LET hit == { j \in 1..Len(rows) : rows[j].token = tok }
  IN IF hit = {} THEN 0 ELSE CHOOSE j \in hit : \A k \in hit : j <= k

\* A validator without the Used test
validateDownloadToken_NoUsedTest(rows, tok) ==
  LET idx == FindToken(rows, tok)
  IN IF idx = 0 THEN [valid |-> FALSE, reason |-> "invalid", idx |-> 0]
     ELSE IF now > rows[idx].expiry
          THEN [valid |-> FALSE, reason |-> "expired", idx |-> idx]
     ELSE [valid |-> TRUE, reason |-> "", idx |-> idx,
           productId |-> parseInt(rows[idx].productIds), email |-> rows[idx].email]

\* A validator without the expiry test
validateDownloadToken_NoExpiryTest(rows, tok) ==
  LET idx == FindToken(rows, tok)
  IN IF idx = 0 THEN [valid |-> FALSE, reason |-> "invalid", idx |-> 0]
     ELSE IF rows[idx].used = "TRUE"
          THEN [valid |-> FALSE, reason |-> "already-used", idx |-> idx]
     ELSE [valid |-> TRUE, reason |-> "", idx |-> idx,
           productId |-> parseInt(rows[idx].productIds), email |-> rows[idx].email]

\* A validator that reports a missing token as not-found
validateDownloadToken_NotFound(rows, tok) ==
  LET idx == FindToken(rows, tok)
  IN IF idx = 0 THEN [valid |-> FALSE, reason |-> "not-found", idx |-> 0]
     ELSE IF rows[idx].used = "TRUE"
          THEN [valid |-> FALSE, reason |-> "already-used", idx |-> idx]
     ELSE IF now > rows[idx].expiry
          THEN [valid |-> FALSE, reason |-> "expired", idx |-> idx]
     ELSE [valid |-> TRUE, reason |-> "", idx |-> idx,
           productId |-> parseInt(rows[idx].productIds), email |-> rows[idx].email]

\* validateDownloadToken's verdict on the rows it read
validateDownloadToken(rows, tok) ==
  LET idx == FindToken(rows, tok)
  IN IF idx = 0 THEN [valid |-> FALSE, reason |-> "invalid", idx |-> 0]
     ELSE IF rows[idx].used = "TRUE"
          THEN [valid |-> FALSE, reason |-> "already-used", idx |-> idx]
     ELSE IF now > rows[idx].expiry
          THEN [valid |-> FALSE, reason |-> "expired", idx |-> idx]
     ELSE [valid |-> TRUE, reason |-> "", idx |-> idx,
           productId |-> parseInt(rows[idx].productIds), email |-> rows[idx].email]

\* getProductFilePath: fileMap[productId] || null
hasFilePath(productId) == productId \in {2, 4}

UsedAtStart(tok) ==
  \E j \in 1..Len(tokens) : tokens[j].token = tok /\ tokens[j].used = "TRUE"

ExpiredAtStart(tok) ==
  \E j \in 1..Len(tokens) : tokens[j].token = tok /\ now > tokens[j].expiry

\* A request as it arrives: the token asked for and what its row says then
Request(tok, ip) ==
  [token |-> tok, ip |-> ip, foundAtStart |-> FindToken(tokens, tok) # 0,
   usedAtStart |-> UsedAtStart(tok), expiredAtStart |-> ExpiredAtStart(tok)]

\* The validation result the route holds across markTokenAsUsed
NewDownload(tok, ip, v) ==
  [pc |-> "mark", token |-> tok, ip |-> ip, idx |-> v.idx, row |-> tokens[v.idx],
   productId |-> v.productId, email |-> v.email, foundAtStart |-> TRUE,
   usedAtStart |-> UsedAtStart(tok), expiredAtStart |-> ExpiredAtStart(tok)]

DownloadResponse(d, status, reason) ==
  [NoResponse EXCEPT !.kind = "download", !.token = d.token, !.status = status,
                     !.reason = reason, !.foundAtStart = d.foundAtStart,
                     !.usedAtStart = d.usedAtStart,
                     !.expiredAtStart = d.expiredAtStart]

HasDownloadRoute == rev \in {"part_003", "part_004"}

\* downloadLimiter: max requests per address and window
DOWNLOAD_LIMIT_MAX == 5

Admitted(ip) ==
  /\ hits[ip] < DOWNLOAD_LIMIT_MAX
  /\ hits' = [hits EXCEPT ![ip] = hits[ip] + 1]

\* downloadLimiter answers 429 once the address has used up its window
DlLimited(tok, ip) ==
  /\ HasDownloadRoute
  /\ Arrive("download", downloads)
  /\ hits[ip] >= DOWNLOAD_LIMIT_MAX
  /\ last' = DownloadResponse(Request(tok, ip), 429, "")
  /\ UNCHANGED <<hits, verified, rev, orders, tokens, emails, sessions, urls, creates,
                 hooks, downloads, sent, now, faults>>

\* Arrival, validateDownloadToken, file path and fs.existsSync
DlValidate(tok, ip) ==
  LET v == validateDownloadToken(tokens, tok)
  IN /\ HasDownloadRoute
     /\ Arrive("download", downloads)
     /\ Admitted(ip)
     /\ IF ~v.valid
        THEN /\ last' = DownloadResponse(Request(tok, ip), 302, v.reason)
             /\ UNCHANGED downloads
        ELSE IF ~hasFilePath(v.productId)
        THEN /\ last' = DownloadResponse(Request(tok, ip), 302, "server-error")
             /\ UNCHANGED downloads
        ELSE /\ downloads' = Put(downloads, NewDownload(tok, ip, v))
             /\ UNCHANGED last
     /\ UNCHANGED <<verified, rev, orders, tokens, emails, sessions, urls, creates, hooks,
                    sent, now, faults>>

\* The sheet read throws (validate answers server-error) or the file is missing
DlValidateFail(tok, ip) ==
  /\ HasDownloadRoute
  /\ Arrive("download", downloads)
  /\ Admitted(ip)
  /\ started + faults + 1 < MaxInputs
  /\ last' = DownloadResponse(Request(tok, ip), 302, "server-error")
  /\ faults' = faults + 1
  /\ UNCHANGED <<verified, rev, orders, tokens, emails, sessions, urls, creates, hooks,
                 downloads, sent, now>>

\* A route that marks the token before it looks for the file
DlFileMissing_Burn(tok, ip) ==
  LET v == validateDownloadToken(tokens, tok)
  IN /\ HasDownloadRoute
     /\ Arrive("download", downloads)
     /\ Admitted(ip)
     /\ started + faults + 1 < MaxInputs
     /\ v.valid /\ hasFilePath(v.productId)
     /\ tokens' = [tokens EXCEPT ![v.idx].used = "TRUE", ![v.idx].ip = ip,
                                 ![v.idx].downloadDate = now]
     /\ last' = [DownloadResponse(Request(tok, ip), 302, "server-error")
                   EXCEPT !.file = "missing"]
     /\ faults' = faults + 1
     /\ UNCHANGED <<verified, rev, orders, emails, sessions, urls, creates, hooks,
                    downloads, sent, now>>

\* The token is valid and has a file path, but fs.existsSync finds no file
DlFileMissing(tok, ip) ==
  LET v == validateDownloadToken(tokens, tok)
  IN /\ HasDownloadRoute
     /\ Arrive("download", downloads)
     /\ Admitted(ip)
     /\ started + faults + 1 < MaxInputs
     /\ v.valid /\ hasFilePath(v.productId)
     /\ tokens' = tokens
     /\ last' = [DownloadResponse(Request(tok, ip), 302, "server-error")
                   EXCEPT !.file = "missing"]
     /\ faults' = faults + 1
     /\ UNCHANGED <<verified, rev, orders, emails, sessions, urls, creates, hooks,
                    downloads, sent, now>>

\* A marker that flips the Used cell it finds in the sheet
DlMark_Flip(d) ==
  /\ d.pc = "mark"
  /\ tokens' = [tokens EXCEPT ![d.idx] =
                  [d.row EXCEPT !.used = IF tokens[d.idx].used = "TRUE" THEN "FALSE" ELSE "TRUE",
                                !.ip = d.ip, !.downloadDate = now]]
  /\ downloads' = Take(downloads, d)
  /\ sent' = Put(sent, d.token)
  /\ last' = DownloadResponse(d, 200, "file")
  /\ UNCHANGED <<hits, verified, rev, orders, emails, sessions, urls, creates, hooks,
                 started, overlap, now, faults>>

\* A marker that sets Used and leaves the audit cells empty
DlMark_NoAudit(d) ==
  /\ d.pc = "mark"
  /\ tokens' = [tokens EXCEPT ![d.idx] = [d.row EXCEPT !.used = "TRUE"]]
  /\ downloads' = Take(downloads, d)
  /\ sent' = Put(sent, d.token)
  /\ last' = DownloadResponse(d, 200, "file")
  /\ UNCHANGED <<hits, verified, rev, orders, emails, sessions, urls, creates, hooks,
                 started, overlap, now, faults>>

\* markTokenAsUsed: the row object read by validate is written back whole;
\* then res.download sends the file
DlMark(d) ==
  /\ d.pc = "mark"
  /\ tokens' = [tokens EXCEPT ![d.idx] =
                  [d.row EXCEPT !.used = "TRUE", !.ip = d.ip, !.downloadDate = now]]
  /\ downloads' = Take(downloads, d)
  /\ sent' = Put(sent, d.token)
  /\ last' = [DownloadResponse(d, 200, "file") EXCEPT !.file = "found"]
  /\ UNCHANGED <<hits, verified, rev, orders, emails, sessions, urls, creates, hooks,
                 started, overlap, now, faults>>

\* A route whose catch answers 500 with the error text
DlMarkFail_Raw(d) ==
  /\ d.pc = "mark"
  /\ CanFail
  /\ downloads' = Take(downloads, d)
  /\ last' = DownloadResponse(d, 500, "")
  /\ faults' = faults + 1
  /\ UNCHANGED <<hits, verified, rev, orders, tokens, emails, sessions, urls, creates, hooks,
                 started, sent, overlap, now>>

\* A route that swallows the failure of tokenRow.save() and sends the file
DlMarkFail_Serve(d) ==
  /\ d.pc = "mark"
  /\ CanFail
  /\ downloads' = Take(downloads, d)
  /\ sent' = Put(sent, d.token)
  /\ last' = [DownloadResponse(d, 200, "file") EXCEPT !.file = "found"]
  /\ faults' = faults + 1
  /\ UNCHANGED <<hits, verified, rev, orders, tokens, emails, sessions, urls, creates, hooks,
                 started, overlap, now>>

\* tokenRow.save() throws: the route's catch redirects with server-error
DlMarkFail(d) ==
  /\ d.pc = "mark"
  /\ CanFail
  /\ downloads' = Take(downloads, d)
  /\ last' = [DownloadResponse(d, 302, "server-error") EXCEPT !.file = "found"]
  /\ faults' = faults + 1
  /\ UNCHANGED <<hits, verified, rev, orders, tokens, emails, sessions, urls, creates, hooks,
                 started, sent, overlap, now>>

----------------------------------------------------------------------------
Next ==
  \/ \E cart \in Carts, cust \in Customers : CreateSession(cart, cust)
  \/ \E cart \in Carts, cust \in Customers : CreateSessionFail(cart, cust)
  \/ \E c \in BagToSet(creates) : CreateScan(c)
  \/ \E c \in BagToSet(creates) : CreateScanFail(c)
  \/ \E c \in BagToSet(creates) : CreateAppend(c)
  \/ \E c \in BagToSet(creates) : CreateAppendFail(c)
  \/ \E c \in BagToSet(creates) : CreateLinks(c)
  \/ \E c \in BagToSet(creates) : CreateLinksFail(c)
  \/ \E c \in BagToSet(creates) : CreateNotify(c)
  \/ \E c \in BagToSet(creates) : CreateNotifyFail(c)
  \/ \E c \in BagToSet(creates) : CreatePdfFail(c)
  \/ \E ev \in Events : HookReceive(ev)
  \/ \E h \in BagToSet(hooks) : HookRead(h)
  \/ \E h \in BagToSet(hooks) : HookFail(h)
  \/ \E h \in BagToSet(hooks) : HookSave(h)
  \/ \E h \in BagToSet(hooks) : HookLinks(h)
  \/ \E h \in BagToSet(hooks) : HookEmail(h)
  \/ \E h \in BagToSet(hooks) : HookAppend(h)
  \/ \E tok \in 0..Len(tokens), ip \in IPs : DlValidate(tok, ip)
  \/ \E tok \in 0..Len(tokens), ip \in IPs : DlValidateFail(tok, ip)
  \/ \E d \in BagToSet(downloads) : DlMark(d)
  \/ \E d \in BagToSet(downloads) : DlMarkFail(d)

\* Within MaxInputs requests no address reaches the limiter's maximum, so
\* Next has no step of DlLimited.  A product file missing from the disk is
\* answered like DlValidateFail; DlFileMissing, which tells the two apart
\* in the response, is a step of TokenNext.
Spec == Init /\ [][Next]_vars

----------------------------------------------------------------------------
\* The download-link service under a clock (part_003 with part_007).  A
\* behaviour starts after one session has been created and its row saved,
\* with the limiter's window of the address one request short of full (it
\* empties when a day passes); the counters of the bounds start at 0.

\* the last day the clock reaches: one past the expiry of a token issued at day 0
MaxTime == 8

\* The days at which the clock is read: the day tokens are first issued, the
\* day those tokens expire, and the days after it
Instants == {0} \cup (LINK_EXPIRY_DAYS .. MaxTime)

DigitalItem(id) == Item(id, NumPrice(CatalogPrice(id)), 1)

IssueCarts ==
  { <<DigitalItem(a)>> : a \in Catalog } \cup
  { <<DigitalItem(2), DigitalItem(b)>> : b \in Catalog }

\* customerData with and without an email address
TokenCustomers == Customers \cup { [email |-> "", shippingMethod |-> "digital"] }

TokenInit ==
  /\ rev = "part_003"
  /\ \E cart \in IssueCarts, cust \in TokenCustomers :
       /\ sessions = << [cart |-> cart, cust |-> cust] >>
       /\ orders = << OrderRow(cart, cust, 1, FormatInvoice(1), AwaitingPayment) >>
  /\ urls = {1}
  /\ tokens = <<>>
  /\ emails = EmptyBag
  /\ creates = EmptyBag
  /\ hooks = EmptyBag
  /\ downloads = EmptyBag
  /\ last = NoResponse
  /\ started = 0
  /\ sent = EmptyBag
  /\ overlap = {}
  /\ verified = {}
  /\ now = 0
  /\ faults = 0
  /\ hits = [ip \in IPs |-> DOWNLOAD_LIMIT_MAX - 1]

\* Time passes to the next instant; the limiter's one-minute window has
\* long ended
Tick ==
  /\ now < MaxTime
  /\ now' = CHOOSE t \in Instants : t > now /\ \A u \in Instants : u > now => t <= u
  /\ hits' = [ip \in IPs |-> 0]
  /\ UNCHANGED <<rev, orders, tokens, emails, sessions, urls, creates, hooks, downloads,
                 last, started, sent, overlap, verified, faults>>

\* The deliveries of the order's payment-completed event
PaymentEvents == { ev \in Events : ev.sigOK /\ ev.type = Completed /\ ev.sid \in urls }

TokenNext ==
  \/ Tick
  \/ \E ev \in PaymentEvents : HookReceive(ev)
  \/ \E h \in BagToSet(hooks) : HookRead(h)
  \/ \E h \in BagToSet(hooks) : HookSave(h)
  \/ \E h \in BagToSet(hooks) : HookLinks(h)
  \/ \E h \in BagToSet(hooks) : sessions[h.ev.sid].cust.email # "" /\ HookEmail(h)
  \/ \E h \in BagToSet(hooks) :
        h.pc = "email" /\ sessions[h.ev.sid].cust.email = "" /\ HookFail(h)
  \/ \E tok \in 0..Len(tokens), ip \in IPs : DlLimited(tok, ip)
  \/ \E tok \in 0..Len(tokens), ip \in IPs : DlValidate(tok, ip)
  \/ \E tok \in 0..Len(tokens), ip \in IPs : DlValidateFail(tok, ip)
  \/ \E tok \in 0..Len(tokens), ip \in IPs : DlFileMissing(tok, ip)
  \/ \E d \in BagToSet(downloads) : DlMark(d)
  \/ \E d \in BagToSet(downloads) : DlMarkFail(d)

TokenSpec == TokenInit /\ [][TokenNext]_vars

----------------------------------------------------------------------------
\* Vocabulary of the properties

Numbered(i) == orders[i].inv.prefix = InvoicePrefix

DistinctInvoices ==
  \A i, j \in 1..Len(orders) :
    (i # j /\ Numbered(i) /\ Numbered(j)) => orders[i].inv # orders[j].inv

IsPaid(row) == row.status \in PaidStatuses

EmailsFor(sid) ==
  LET mine == { e \in BagToSet(emails) : e.sid = sid }
  IN BagCardinality([e \in mine |-> emails[e]])

TokenRowsFor(invoiceNumber, productId) ==
  { k \in 1..Len(tokens) : tokens[k].inv = invoiceNumber
                           /\ parseInt(tokens[k].productIds) = productId }

\* C1: with any number of session creations in flight together, and every
\* ledger call succeeding, no two rows of the Orders tab carry the same
\* invoice number.
C1_ConcurrentInvoicesDistinct == (faults = 0) => DistinctInvoices

\* C2: for every download token, the file is sent at most once, however the
\* download requests for it interleave.
C2_FileSentAtMostOnce ==
  \A k \in 1..Len(tokens) : CopiesIn(tokens[k].token, sent) <= 1

\* C3: when webhook deliveries are handled one after the other, the handler
\* acknowledging a verified completed event that wrote the status leaves the
\* order row Paid and at most one confirmation email sent for its session.
C3_RedeliveryIdempotent ==
  ( /\ "webhook" \notin overlap
    /\ faults = 0
    /\ last.kind = "webhook" /\ last.sigOK /\ last.type = Completed
    /\ last.writes >= 1 )
  => /\ \E i \in 1..Len(orders) : orders[i].sid = last.sid /\ IsPaid(orders[i])
     /\ EmailsFor(last.sid) <= 1

\* C4: when deliveries of the completed event of one session were in flight
\* together, the order still has at most one email and at most one token per
\* deliverable product.
C4_ConcurrentDeliveryOnce ==
  ("webhook" \in overlap /\ faults = 0)
  => \A i \in 1..Len(orders) :
       /\ EmailsFor(orders[i].sid) <= 1
       /\ \A p \in {2, 4} : Cardinality(TokenRowsFor(orders[i].inv, p)) <= 1

\* C5: a webhook request whose signature does not verify never gets past
\* constructEvent: it is answered 400 having read nothing, written nothing
\* and sent nothing, and no such request is ever in flight.
C5_BadSignatureRejected ==
  /\ \A h \in BagToSet(hooks) : h.ev.sigOK
  /\ (last.kind = "webhook" /\ ~last.sigOK)
     => (last.status = 400 /\ last.reads = 0 /\ last.writes = 0 /\ last.mails = 0)

C5_Witness == last.kind = "webhook" /\ ~last.sigOK /\ last.status = 400

\* C6: every row appended to the Orders tab has status AwaitingPayment, and
\* a row is Paid only if a verified completed event for its session id
\* reached the handler.
C6_AppendedAwaitingPaidOnlyVerified ==
  /\ [][Len(orders') > Len(orders)
        => orders'[Len(orders')].status = AwaitingPayment]_vars
  /\ [](\A i \in 1..Len(orders) : IsPaid(orders[i]) => orders[i].sid \in verified)

\* C7: a row that is Paid is still there and still Paid after every step.
C7_PaidStaysPaid ==
  [][\A i \in 1..Len(orders) :
       IsPaid(orders[i]) => (i <= Len(orders') /\ IsPaid(orders'[i]))]_vars

\* A Paid row about to be written again from a row object read before it was Paid
C7_Witness ==
  \E h \in BagToSet(hooks) :
    /\ h.pc = "save"
    /\ h.row.status = AwaitingPayment
    /\ IsPaid(orders[h.idx])

\* C8: when session creations never overlap, no two rows carry the same
\* invoice number, also after an allocation whose scan failed.
C8_SerialInvoicesDistinct == ("create" \notin overlap) => DistinctInvoices

\* C9: no token row carries the invoice number of an order that is still
\* AwaitingPayment (stated where invoice numbers identify the order).
C9_NoTokenBeforePayment ==
  DistinctInvoices
  => \A k \in 1..Len(tokens), i \in 1..Len(orders) :
       tokens[k].inv = orders[i].inv => IsPaid(orders[i])

C14_OneTokenRowPerInvoiceProduct ==
  DistinctInvoices
  => \A i \in 1..Len(orders), p \in {2, 4} :
       Cardinality(TokenRowsFor(orders[i].inv, p)) <= 1

\* C17: a verified completed event whose handler saved the Paid status is
\* answered 200 and its row is Paid, also when a later step of the handler
\* (token issuance, invoice rendering, email) failed.
C17_DownstreamFailureKeepsPaid ==
  ( /\ last.kind = "webhook" /\ last.sigOK /\ last.type = Completed
    /\ last.writes >= 1 )
  => /\ last.status = 200
     /\ \E i \in 1..Len(orders) : orders[i].sid = last.sid /\ IsPaid(orders[i])

C17_Witness ==
  /\ rev = "part_003" /\ faults = 1
  /\ last.kind = "webhook" /\ last.sigOK /\ last.type = Completed
  /\ last.writes >= 1 /\ last.mails = 0 /\ EmailsFor(last.sid) = 0
  /\ last.status = 200
  /\ \E i \in 1..Len(orders) : orders[i].sid = last.sid /\ IsPaid(orders[i])

\* C18: the step that ends the handling of a verified completed event whose
\* session matches no row of the Orders tab answers 200 and writes no row,
\* issues no token and sends no email.
C18_UnmatchedEventAcknowledged ==
  [][ \A h \in BagToSet(hooks) :
        ( /\ h.ev.sigOK /\ h.ev.type = Completed
          /\ h.pc \in {"read", "append"}
          /\ FindOrder(orders, h.ev.sid) = 0
          /\ hooks' = Take(hooks, h) )
        => ( /\ orders' = orders /\ tokens' = tokens /\ emails' = emails
             /\ last'.kind = "webhook" /\ last'.status = 200 ) ]_vars

\* C20: a session request naming a product that is not in the catalog is
\* answered with a 4xx status, and answering it creates no gateway session
\* and appends no row.
C20_UnknownProductRejected ==
  /\ [](last.kind = "create" /\ last.reason = "product-not-found"
          => last.status \in 400..499)
  /\ [][ (last' # last /\ last'.kind = "create" /\ last'.reason = "product-not-found")
          => (sessions' = sessions /\ urls' = urls /\ orders' = orders) ]_vars

\* C21: the Orders tab never holds two rows with the same session id, also
\* after the completed event of a session was delivered more than once.
C21_OneRowPerSession ==
  \A i, j \in 1..Len(orders) : i # j => orders[i].sid # orders[j].sid

\* C22: the step that ends the allocator's scan of a request, whether the
\* scan succeeded or threw, hands the request an invoice number and passes it
\* on to the append of its row; it sends no response.
C22_ScanFailureFallsBack ==
  [][ \A c \in BagToSet(creates) :
        (c.pc = "scan" /\ CopiesIn(c, creates') < CopiesIn(c, creates))
        => /\ \E d \in BagToSet(creates') :
                /\ creates' = Move(creates, c, d)
                /\ d.pc = "append" /\ d.sid = c.sid
                /\ d.inv.prefix = InvoicePrefix /\ Len(d.inv.suffix) >= 3
           /\ last' = last ]_vars

C22_Witness ==
  /\ rev = "part_003" /\ started = 1 /\ faults = 1
  /\ last.kind = "create" /\ last.status = 200
  /\ Len(orders) = 1 /\ orders[1].inv \in FallbackInvoices(rev)

\* C23: no confirmation email (with its invoice) exists for an order whose
\* row is not Paid.
C23_NoEmailBeforePaid ==
  \A e \in BagToSet(emails) :
    \A i \in 1..Len(orders) : orders[i].sid = e.sid => IsPaid(orders[i])

\* C26: in every step, each row that is in the Orders tab keeps its place,
\* its invoice number, session id, customer and items; only its status may
\* change, and only while the handler of a verified completed event for its
\* session is running.
C26_WebhookChangesStatusOnly ==
  [][ \A i \in 1..Len(orders) :
        /\ Len(orders') >= i
        /\ orders'[i] = [orders[i] EXCEPT !.status = orders'[i].status]
        /\ orders'[i].status # orders[i].status
             => \E h \in BagToSet(hooks) :
                   h.ev.sigOK /\ h.ev.type = Completed /\ h.ev.sid = orders[i].sid ]_vars

C26_Witness ==
  /\ rev # "part_000"
  /\ last.kind = "webhook" /\ last.writes >= 1
  /\ \E i, j \in 1..Len(orders) :
       /\ i # j /\ orders[i].sid = last.sid
       /\ IsPaid(orders[i]) /\ Numbered(i)
       /\ orders[j].status = AwaitingPayment

\* C27: a verified event of a type other than checkout.session.completed is
\* answered 200 in the step it arrives, having read, written and sent
\* nothing, and that step leaves the Orders tab, the Download_Links tab and
\* the emails unchanged.
C27_OtherEventsIgnored ==
  /\ []( (last.kind = "webhook" /\ last.sigOK /\ last.type # Completed)
          => (last.status = 200 /\ last.reads = 0 /\ last.writes = 0 /\ last.mails = 0) )
  /\ [][ ( /\ started' # started
           /\ last'.kind = "webhook" /\ last'.sigOK /\ last'.type # Completed
           /\ creates' = creates /\ hooks' = hooks /\ downloads' = downloads )
         => ( orders' = orders /\ tokens' = tokens /\ emails' = emails ) ]_vars

C27_Witness ==
  /\ last.kind = "webhook" /\ last.sigOK /\ last.type = "payment_intent.succeeded"
  /\ last.status = 200
  /\ \E i \in 1..Len(orders) : orders[i].sid = last.sid /\ orders[i].status = AwaitingPayment

\* C33: when the last response is the 200 given to a verified completed
\* event, every row of that event's session is Paid.
C33_AckedCompletedIsPaid ==
  ( /\ last.kind = "webhook" /\ last.sigOK /\ last.type = Completed
    /\ last.status = 200 )
  => \A i \in 1..Len(orders) : orders[i].sid = last.sid => IsPaid(orders[i])

\* C34: when the last response is an error given to a session request, the
\* Orders tab holds no row of the session created for that request.
C34_ErrorLeavesNoRow ==
  ( /\ last.kind = "create" /\ last.status >= 400
    /\ last.sid # ForeignSession )
  => \A i \in 1..Len(orders) : orders[i].sid # last.sid

\* C35: every session whose payment_url reached the client, and every
\* session of this server whose completed event passed verification, has a
\* row in the Orders tab.
C35_UrlOnlyAfterRow ==
  \A s \in urls \cup (verified \ {ForeignSession}) :
    \E i \in 1..Len(orders) : orders[i].sid = s

----------------------------------------------------------------------------
\* Pricing: one order per behaviour, its cart and shipping method drawn from
\* the priced inputs, in the revisions that store the totals when the
\* session is created and email a PDF invoice.

PricedLines ==
  { Item(id, price, quantity) :
      id \in {2, 7},
      price \in {NumPrice(1000), NumPrice(2500), StrPrice(<<"$", "2", "5", ".", "5", "0">>)},
      quantity \in 0..2 }

PricedCarts ==
  { <<l>> : l \in PricedLines } \cup
  { <<Item(7, NumPrice(2500), 2), l>> : l \in PricedLines }

PricedCustomers ==
  { [email |-> "anna@example.com", shippingMethod |-> m] : m \in {"digital", "home", "pickup"} }

PricingInit ==
  /\ Init
  /\ rev \in {"server", "part_003", "part_004"}

PricingNext ==
  \/ \E cart \in PricedCarts, cust \in PricedCustomers :
        sessions = <<>> /\ CreateSession(cart, cust)
  \/ \E c \in BagToSet(creates) : CreateScan(c)
  \/ \E c \in BagToSet(creates) : CreateAppend(c)
  \/ \E c \in BagToSet(creates) : CreateLinks(c)
  \/ \E c \in BagToSet(creates) : CreateNotify(c)
  \/ \E ev \in PaymentEvents : HookReceive(ev)
  \/ \E h \in BagToSet(hooks) : HookRead(h)
  \/ \E h \in BagToSet(hooks) : HookSave(h)
  \/ \E h \in BagToSet(hooks) : HookLinks(h)
  \/ \E h \in BagToSet(hooks) : HookEmail(h)

PricingSpec == PricingInit /\ [][PricingNext]_vars

\* C15: the shipping cost stored for an order is 0 whenever every cart item's
\* id is in {2, 4, 300}, whatever the shipping method, and whenever the method
\* is digital; it is the home-delivery cost (15.00) when the method is home
\* and the cart is not all-digital.
C15_ShippingCost ==
  \A i \in 1..Len(orders) :
    LET cart == sessions[orders[i].sid].cart
        method == sessions[orders[i].sid].cust.shippingMethod
        allDigital == \A k \in 1..Len(cart) : cart[k].id \in {2, 4, 300}
    IN /\ (allDigital \/ method = "digital")
            => orders[i].shipping = [int |-> <<0>>, frac |-> <<0, 0>>]
       /\ (method = "home" /\ ~allDigital)
            => orders[i].shipping = [int |-> <<1, 5>>, frac |-> <<0, 0>>]

C15_Witness ==
  \E i \in 1..Len(orders) :
    /\ sessions[orders[i].sid].cust.shippingMethod = "home"
    /\ sessions[orders[i].sid].cart = <<Item(7, NumPrice(2500), 2), Item(2, NumPrice(1000), 1)>>
    /\ orders[i].shipping = [int |-> <<1, 5>>, frac |-> <<0, 0>>]

\* The unit price of a priced line, in cents
UnitPrice(line) ==
  IF line.price.type = "number" THEN line.price.cents ELSE 2550

\* sum(unitPrice x quantity) + shippingCost, with qty(line) the quantity counted
ExpectedTotal(cart, method, qty(_)) ==
  LET S[k \in 0..Len(cart)] ==
        IF k = 0 THEN 0 ELSE S[k - 1] + UnitPrice(cart[k]) * qty(cart[k])
      allDigital == \A k \in 1..Len(cart) : cart[k].id \in {2, 4, 300}
      ship == IF allDigital \/ method # "home" THEN 0 ELSE 1500
  IN S[Len(cart)] + ship

Money(c) == [int |-> Digits(c \div 100), frac |-> <<(c \div 10) % 10, c % 10>>]

TotalsAgree(qty(_)) ==
  \A i \in 1..Len(orders) :
    LET s == sessions[orders[i].sid]
        expected == Money(ExpectedTotal(s.cart, s.cust.shippingMethod, qty))
    IN /\ orders[i].total = expected
       /\ \A e \in BagToSet(emails) : e.sid = orders[i].sid => e.total = expected

QuantityOrOne(line) == IF line.quantity >= 1 THEN line.quantity ELSE 1

QuantityAsGiven(line) == line.quantity

\* C16 (as amended): the grand total stored in the order row and the grand
\* total on the invoice emailed for that order both equal
\* sum(unitPrice x quantity) + shippingCost, where a line whose quantity is
\* missing or 0 counts with quantity 1.
C16_TotalsAgree == TotalsAgree(QuantityOrOne)

\* C16 as stated: for every cart the totals equal sum(unitPrice x quantity)
\* + shippingCost with the quantities as given.
C16_TotalsAgreeAsStated == TotalsAgree(QuantityAsGiven)

C16_Witness ==
  \E i \in 1..Len(orders), e \in BagToSet(emails) :
    /\ e.sid = orders[i].sid
    /\ sessions[orders[i].sid].cart = <<Item(7, NumPrice(2500), 2)>>
    /\ sessions[orders[i].sid].cust.shippingMethod = "home"
    /\ orders[i].productTotal = [int |-> <<5, 0>>, frac |-> <<0, 0>>]
    /\ orders[i].total = [int |-> <<6, 5>>, frac |-> <<0, 0>>]
    /\ e.total = [int |-> <<6, 5>>, frac |-> <<0, 0>>]

----------------------------------------------------------------------------
\* Invoice allocation: session requests served one at a time, starting from
\* an Orders tab that already holds rows, in the revisions that number
\* invoices when the session is created.

Allocators == {"server", "part_003", "part_004", "part_005"}

\* 'Szamla Szam' cells found in the tab: empty, another numbering, and
\* numbers of the year-scoped prefix
LedgerInvoices ==
  { NoInvoice, [prefix |-> "INV-", suffix |-> <<0, 0, 7>>],
    FormatInvoice(1), FormatInvoice(12) }

LedgerRow(inv) ==
  OrderRow(<<Item(7, NumPrice(2500), 1)>>, [email |-> "bela@example.com", shippingMethod |-> "home"],
           -1, inv, AwaitingPayment)

Ledgers ==
  UNION { [1..n -> { LedgerRow(inv) : inv \in LedgerInvoices }] : n \in 0..MaxRows }

AllocInit ==
  /\ rev \in Allocators
  /\ orders \in Ledgers
  /\ tokens = <<>>
  /\ emails = EmptyBag
  /\ sessions = <<>>
  /\ urls = {}
  /\ creates = EmptyBag
  /\ hooks = EmptyBag
  /\ downloads = EmptyBag
  /\ last = NoResponse
  /\ started = 0
  /\ sent = EmptyBag
  /\ overlap = {}
  /\ verified = {}
  /\ now = 0
  /\ faults = 0
  /\ hits = [ip \in IPs |-> 0]

AllocNext ==
  \/ \E cart \in Carts, cust \in Customers :
        creates = EmptyBag /\ CreateSession(cart, cust)
  \/ \E c \in BagToSet(creates) : CreateScan(c)
  \/ \E c \in BagToSet(creates) : CreateAppend(c)
  \/ \E c \in BagToSet(creates) : CreateLinks(c)
  \/ \E c \in BagToSet(creates) : CreateNotify(c)
  \/ \E c \in BagToSet(creates) : CreateSave(c)
  \/ \E c \in BagToSet(creates) : CreateInvoice(c)
  \/ \E c \in BagToSet(creates) : CreateUpload(c)

AllocSpec == AllocInit /\ [][AllocNext]_vars

\* PREFIX-YEAR-(m+1), zero-padded to 3 digits, m the greatest suffix among the
\* rows whose invoice number has the year-scoped prefix
ExpectedInvoice(rows) ==
  LET matching == { i \in 1..Len(rows) : rows[i].inv.prefix = "E-SEN-2026-" }
      Value(d) == IF Len(d) = 3 THEN 100 * d[1] + 10 * d[2] + d[3] ELSE 0
      n == CHOOSE x \in 1..1000 :
             /\ \A i \in matching : x > Value(rows[i].inv.suffix)
             /\ x = 1 \/ \E i \in matching : x = Value(rows[i].inv.suffix) + 1
  IN [prefix |-> "E-SEN-2026-",
      suffix |-> IF n < 10 THEN <<0, 0, n>>
                 ELSE IF n < 100 THEN <<0, n \div 10, n % 10>>
                 ELSE <<n \div 100, (n \div 10) % 10, n % 10>>]

\* C25: the step in which a request's scan of the Orders tab succeeds gives
\* the request the number PREFIX-YEAR-(m+1), zero-padded to 3 digits, m being
\* the greatest suffix among the rows with a matching invoice number (0 when
\* there is none); rows without a matching number do not count.
C25_NextInvoiceIsMaxPlusOne ==
  [][ \A c \in BagToSet(creates), d \in BagToSet(creates') :
        ( /\ c.inv = NoInvoice /\ d.inv # NoInvoice /\ d.sid = c.sid
          /\ creates' = Move(creates, c, d) /\ faults' = faults )
        => d.inv = ExpectedInvoice(orders) ]_vars

\* C32: for every order row, the total of the line items submitted to the
\* gateway for its session (catalog price x quantity per item, plus the Home
\* Delivery line when one is added) equals the grand total of the row.
C32_GatewayTotalEqualsRowTotal ==
  \A i \in 1..Len(orders) :
    LET cart == sessions[orders[i].sid].cart
    IN orders[i].total = toFixed2(lineItemsTotal(cart) + lineItemsShipping(cart))

----------------------------------------------------------------------------
\* Claims about the download-link service, checked under TokenSpec

\* C11: a download request that arrives after the token's expiry has passed
\* is never served, whether the token's row says used or not (expiry is
\* tested when the request is validated); when the row says unused and the
\* lookup succeeds, the reason given is expired.
C11_ExpiredNeverServed ==
  /\ \A d \in BagToSet(downloads) : ~d.expiredAtStart
  /\ (last.kind = "download" /\ last.expiredAtStart) =>
       /\ last.status # 200
       /\ (~last.usedAtStart /\ last.status = 302 /\ last.reason # "server-error")
            => last.reason = "expired"

C11_Witness ==
  /\ last.kind = "download" /\ last.expiredAtStart /\ ~last.usedAtStart
  /\ last.reason = "expired"

\* What validate answers, with the reason it gives for a token no row has
VerdictsWith(missing) ==
  /\ \A d \in BagToSet(downloads) :
       /\ d.foundAtStart /\ ~d.usedAtStart /\ ~d.expiredAtStart
       /\ d.productId = tokens[d.idx].bound.productId
       /\ d.email = tokens[d.idx].bound.email
  /\ (last.kind = "download" /\ last.status = 302 /\ last.reason # "server-error") =>
       /\ last.reason = IF ~last.foundAtStart THEN missing
                        ELSE IF last.usedAtStart THEN "already-used" ELSE "expired"
       /\ (last.foundAtStart /\ ~last.usedAtStart) => last.expiredAtStart

\* C12 (as amended): validate answers invalid with reason "invalid" when no
\* row has the token, already-used when the row's Used is TRUE, expired when
\* the row is unused and now > expiry, and otherwise valid with the productId
\* and email that were bound to the token when it was issued.
C12_ValidateVerdicts == VerdictsWith("invalid")

\* C12 as stated: the reason for a token no row has is not-found.
C12_ValidateVerdictsAsStated == VerdictsWith("not-found")

C12_Witness ==
  /\ \E d \in BagToSet(downloads) : d.productId = 4 /\ d.email = "anna@example.com"
  /\ last.kind = "download" /\ ~last.foundAtStart /\ last.reason = "invalid"

IssuedCount(new, p) == Cardinality({ k \in 1..Len(new) : new[k].bound.productId = p })

ExpectedCount(cart, p) ==
  IF (p = 2 /\ (hasItem(cart, 2) \/ hasItem(cart, 300)))
     \/ (p = 4 /\ (hasItem(cart, 4) \/ hasItem(cart, 300)))
  THEN 1 ELSE 0

\* C13: every issuance for an order (a webhook passing its link-generation
\* step without a failure) appends exactly one token row for product 2 if
\* the cart holds product 2 or bundle 300, exactly one for product 4 if it
\* holds product 4 or bundle 300, and no other row.
C13_OneTokenPerDigitalProduct ==
  [][\A h \in BagToSet(hooks) :
       (h.pc = "links" /\ CopiesIn(h, hooks') < CopiesIn(h, hooks) /\ faults' = faults)
       => LET new == SubSeq(tokens', Len(tokens) + 1, Len(tokens'))
              cart == sessions[h.ev.sid].cart
          IN /\ \A p \in Catalog : IssuedCount(new, p) = ExpectedCount(cart, p)
             /\ Len(new) = ExpectedCount(cart, 2) + ExpectedCount(cart, 4)]_vars

C13_Witness ==
  /\ hasItem(sessions[1].cart, 300)
  /\ Len(tokens) = 2
  /\ tokens[1].bound.productId = 2 /\ tokens[2].bound.productId = 4

DownloadReasons == {"invalid", "already-used", "expired", "server-error"}

\* C19 (as amended): every download request that the rate limiter admits
\* and that does not serve the file is redirected to the error page with a
\* reason in {invalid, already-used, expired, server-error}, also when the
\* ledger lookup or the mark-used write fails; a request is answered 429
\* only when its address has used up the limiter's window.
C19_FailuresRedirectWithReason ==
  /\ [](last.kind = "download" =>
          \/ last.status = 200
          \/ last.status = 429
          \/ (last.status = 302 /\ last.reason \in DownloadReasons))
  /\ [][(last' # last /\ last'.kind = "download" /\ last'.status = 429)
          => \E ip \in IPs : hits[ip] >= DOWNLOAD_LIMIT_MAX]_vars

\* C19 as stated: every request that does not serve the file is redirected
\* with one of the four reasons.
C19_FailuresRedirectAsStated ==
  (last.kind = "download" /\ last.status # 200)
    => (last.status = 302 /\ last.reason \in DownloadReasons)

C19_Witness ==
  /\ last.kind = "download" /\ last.status = 302 /\ last.reason = "server-error"
  /\ last.foundAtStart /\ ~last.usedAtStart /\ ~last.expiredAtStart
  /\ faults > 0

\* C24: a Used cell goes from FALSE to TRUE only in a step of a request that
\* passed the file test, and the step answering a request whose product file
\* is missing redirects with server-error, changes no token row and sends
\* no file.
C24_MarkedOnlyAfterFileFound ==
  /\ [][ \A k \in 1..Len(tokens) :
           (tokens[k].used = "FALSE" /\ tokens'[k].used = "TRUE")
           => \E d \in BagToSet(downloads) :
                 /\ d.pc = "mark" /\ d.token = tokens[k].token
                 /\ hasFilePath(d.productId)
                 /\ downloads' = Take(downloads, d) ]_vars
  /\ [][ ( /\ started' # started /\ downloads' = downloads
           /\ last'.kind = "download" /\ last'.file = "missing" )
         => ( /\ last'.status = 302 /\ last'.reason = "server-error"
              /\ tokens' = tokens /\ sent' = sent ) ]_vars

C24_Witness ==
  /\ last.kind = "download" /\ last.file = "missing"
  /\ last.status = 302 /\ last.reason = "server-error"
  /\ last.foundAtStart /\ ~last.usedAtStart /\ ~last.expiredAtStart
  /\ \E k \in 1..Len(tokens) :
       tokens[k].token = last.token /\ tokens[k].used = "FALSE"
  /\ downloads = EmptyBag

\* C28: in every step each token row stays in the Download_Links tab with its
\* token, a Used cell that is TRUE stays TRUE, and a row that is past its
\* expiry is still past it; so a token the validator once refused as used or
\* expired is refused in every later state.
C28_RedeemedAndExpiredTerminal ==
  [][ /\ Len(tokens') >= Len(tokens)
      /\ \A k \in 1..Len(tokens) :
           /\ tokens'[k].token = tokens[k].token
           /\ tokens[k].used = "TRUE" => tokens'[k].used = "TRUE"
           /\ now > tokens[k].expiry => now' > tokens'[k].expiry
           /\ ~validateDownloadToken(tokens, tokens[k].token).valid
                => ~validateDownloadToken(tokens', tokens[k].token).valid ]_vars

C28_Witness ==
  \E j, k \in 1..Len(tokens) :
    /\ tokens[j].used = "TRUE" /\ tokens[j].downloadDate < now
    /\ tokens[k].used = "FALSE" /\ now > tokens[k].expiry
    /\ last.kind = "download" /\ last.token = tokens[k].token /\ last.reason = "expired"

C30_TokenLinksToOrder ==
  \A k \in 1..Len(tokens) :
    \E i \in 1..Len(orders) :
      orders[i].inv = tokens[k].inv /\ orders[i].email = tokens[k].email

C36_FileOnlyAfterMarkSucceeded ==
  [][ /\ sent' # sent
           => \E d \in BagToSet(downloads) :
                /\ downloads' = Take(downloads, d)
                /\ sent' = Put(sent, d.token)
                /\ faults' = faults
                /\ tokens'[d.idx].used = "TRUE"
                /\ tokens'[d.idx].ip = d.ip
      /\ \A d \in BagToSet(downloads) :
           (downloads' = Take(downloads, d) /\ faults' # faults)
           => /\ sent' = sent
              /\ tokens' = tokens
              /\ last'.status = 302 /\ last'.reason = "server-error" ]_vars

C36_Witness ==
  /\ last.kind = "download" /\ last.file = "found"
  /\ last.status = 302 /\ last.reason = "server-error"
  /\ CopiesIn(last.token, sent) = 0
  /\ \E k \in 1..Len(tokens) : tokens[k].token = last.token /\ tokens[k].used = "FALSE"

\* C37: the email a webhook run sends carries a link for every token that
\* run issued, whatever the cart holds.
C37_EveryIssuedTokenIsLinked ==
  [][ \A h \in BagToSet(hooks) :
        (h.pc = "email" /\ hooks' = Take(hooks, h) /\ emails' # emails)
        => \E e \in BagToSet(emails') :
             /\ emails' = Put(emails, e)
             /\ e.sid = h.ev.sid
             /\ h.links \subseteq e.links ]_vars

====
